---- MODULE Spec2Model ----
(***************************************************************************)
(* Priority task scheduler of src/app.py: a session-scoped task queue kept *)
(* as a binary min-heap of (priority_value, task_name) tuples with Python's*)
(* heapq (heapify / heappush / heappop), an "Add Task" button, a "Process  *)
(* Most Urgent Task" button and a priority-sorted table of the queue.      *)
(* Python lists are 0-based; sequences here are 1-based, so list index k   *)
(* is sequence index k + 1.                                                *)
(***************************************************************************)
EXTENDS Integers, Sequences, FiniteSets, Bags, TLC

VARIABLES
    task_queue,   \* st.session_state.task_queue: the heap array of tuples
    df,           \* the table rendered by the last script run (<<>>: st.info)
    outcome,      \* what the last handler reported: <<kind, task>>
    nIns,         \* history: tasks put in the queue so far (seed tasks included)
    nPop,         \* history: tasks taken out by heappop so far
    ledger,       \* history: bag of seed + added tasks minus processed tasks
    popRun,       \* history: tasks processed since the last successful add
    arrival,      \* history: the queued tasks in the order they arrived
    overtook      \* history: the last processed task left behind an earlier
                  \*          arrival of the same priority

vars == <<task_queue, df, outcome, nIns, nPop, ledger, popRun, arrival, overtook>>

----------------------------------------------------------------------------
(* Bounds of the model and constants of the program *)

\* total number of tasks ever put in the queue (seed tasks included)
MaxInserts == 5

\* st.number_input(min_value=1, max_value=5, step=1)
MinPriority == 1
MaxPriority == 5

Priorities == MinPriority..MaxPriority

\* what the user can type in the "Task Description" box; "" is the empty box
TypedDescriptions == {"", "D", "De", "d"}

NoTask == <<0, "">>

----------------------------------------------------------------------------
(* Python's ordering of the tuples: str by code points, tuple lexicographic *)

\* the Unicode code points of the strings the model uses
CodePoints(s) ==
    CASE s = "" -> <<>>
      [] s = "D" -> <<68>>
      [] s = "De" -> <<68, 101>>
      [] s = "d" -> <<100>>
      [] s = "Send follow-up email (Low Priority)" ->
            <<83, 101, 110, 100, 32, 102, 111, 108, 108, 111, 119, 45, 117,
              112, 32, 101, 109, 97, 105, 108, 32, 40, 76, 111, 119, 32, 80,
              114, 105, 111, 114, 105, 116, 121, 41>>
      [] s = "Fix critical server bug (Urgent)" ->
            <<70, 105, 120, 32, 99, 114, 105, 116, 105, 99, 97, 108, 32, 115,
              101, 114, 118, 101, 114, 32, 98, 117, 103, 32, 40, 85, 114,
              103, 101, 110, 116, 41>>
      [] s = "Review PRs (Medium Priority)" ->
            <<82, 101, 118, 105, 101, 119, 32, 80, 82, 115, 32, 40, 77, 101,
              100, 105, 117, 109, 32, 80, 114, 105, 111, 114, 105, 116, 121,
              41>>

\* a < b for two code point sequences: the first differing position decides,
\* a proper prefix is the smaller one
RECURSIVE SeqLess(_, _)
SeqLess(a, b) ==
    IF b = <<>> THEN FALSE
    ELSE IF a = <<>> THEN TRUE
    ELSE IF Head(a) # Head(b) THEN Head(a) < Head(b)
    ELSE SeqLess(Tail(a), Tail(b))

\* str.__lt__
StrLess(s, t) == SeqLess(CodePoints(s), CodePoints(t))

\* faulty variant: tuples ordered by priority alone
PriorityLess(x, y) == x[1] < y[1]

\* tuple.__lt__ on (priority_value, task_name): the first element that
\* differs decides
TupleLess(x, y) ==
    IF x[1] # y[1] THEN x[1] < y[1] ELSE StrLess(x[2], y[2])

----------------------------------------------------------------------------
(* heapq, on 1-based sequences: position pos of the list is index pos + 1 *)

\* heapq._siftdown(heap, startpos, pos): move newitem towards the root
\* while it is smaller than its parent
RECURSIVE SiftDownLoop(_, _, _, _)
SiftDownLoop(heap, startpos, pos, newitem) ==
    IF pos > startpos
    THEN LET parentpos == (pos - 1) \div 2
             parent == heap[parentpos + 1]
         IN  IF TupleLess(newitem, parent)
             THEN SiftDownLoop([heap EXCEPT ![pos + 1] = parent],
                               startpos, parentpos, newitem)
             ELSE [heap EXCEPT ![pos + 1] = newitem]
    ELSE [heap EXCEPT ![pos + 1] = newitem]

\* faulty variant: the parents are moved down but newitem is never written back
siftdownLosesItem(heap, startpos, pos) ==
    LET parentpos == (pos - 1) \div 2
    IN  IF pos > startpos /\ TupleLess(heap[pos + 1], heap[parentpos + 1])
        THEN [heap EXCEPT ![pos + 1] = heap[parentpos + 1]]
        ELSE heap

siftdown(heap, startpos, pos) ==
    SiftDownLoop(heap, startpos, pos, heap[pos + 1])

\* heapq._siftup(heap, pos): bubble the smaller child up until a leaf is
\* hit, put newitem there, then sift it down to its place
RECURSIVE SiftUpLoop(_, _, _, _)
SiftUpLoop(heap, startpos, pos, newitem) ==
    LET endpos == Len(heap)
        childpos == 2 * pos + 1
    IN  IF childpos < endpos
        THEN LET rightpos == childpos + 1
                 c == IF rightpos < endpos
                         /\ ~TupleLess(heap[childpos + 1], heap[rightpos + 1])
                      THEN rightpos ELSE childpos
             IN  SiftUpLoop([heap EXCEPT ![pos + 1] = heap[c + 1]],
                            startpos, c, newitem)
        ELSE siftdown([heap EXCEPT ![pos + 1] = newitem], startpos, pos)

\* faulty variant: the left child is always the one bubbled up
RECURSIVE SiftUpLeftLoop(_, _, _, _)
SiftUpLeftLoop(heap, startpos, pos, newitem) ==
    IF 2 * pos + 1 < Len(heap)
    THEN SiftUpLeftLoop([heap EXCEPT ![pos + 1] = heap[2 * pos + 2]],
                        startpos, 2 * pos + 1, newitem)
    ELSE siftdown([heap EXCEPT ![pos + 1] = newitem], startpos, pos)

siftupLeftChild(heap, pos) == SiftUpLeftLoop(heap, pos, pos, heap[pos + 1])

siftup(heap, pos) == SiftUpLoop(heap, pos, pos, heap[pos + 1])

\* heapq.heapify(x): for i in reversed(range(n // 2)): _siftup(x, i)
RECURSIVE HeapifyFrom(_, _)
HeapifyFrom(x, i) ==
    IF i < 0 THEN x ELSE HeapifyFrom(siftup(x, i), i - 1)

\* faulty variant: the seed list is left as written, never heapified
heapifyNone(x) == x

heapify(x) == HeapifyFrom(x, (Len(x) \div 2) - 1)

\* faulty variant: the item is appended and never sifted
heappushNoSift(heap, item) == Append(heap, item)

\* heapq.heappush(heap, item): append, then _siftdown(heap, 0, len(heap)-1)
heappush(heap, item) == siftdown(Append(heap, item), 0, Len(heap))

\* faulty variant: the last element is read but not removed from the list
heappopNoShrink(heap) ==
    <<heap[1], siftup([heap EXCEPT ![1] = heap[Len(heap)]], 0)>>

\* heapq.heappop(heap) on a non-empty heap, as <<returnitem, heap after>>:
\* lastelt = heap.pop(); if the heap is now empty return lastelt, else put
\* lastelt at the root, sift it and return the old root
heappop(heap) ==
    LET lastelt == heap[Len(heap)]
        rest == SubSeq(heap, 1, Len(heap) - 1)
    IN  IF rest # <<>>
        THEN <<heap[1], siftup([rest EXCEPT ![1] = lastelt], 0)>>
        ELSE <<lastelt, rest>>

----------------------------------------------------------------------------
(* The table: pd.DataFrame(task_queue).sort_values(by=priority column) *)

\* sort_values uses the default kind="quicksort", which is not stable: the
\* rows come out in ascending priority, rows of equal priority in any order.
\* All the tables it can produce from the rows at the positions in idx.
RECURSIVE SortedTables(_, _)
SortedTables(rows, idx) ==
    IF idx = {} THEN {<<>>}
    ELSE LET low == {i \in idx : \A j \in idx : rows[i][1] <= rows[j][1]}
         IN  UNION {{<<rows[i]>> \o t : t \in SortedTables(rows, idx \ {i})}
                    : i \in low}

\* lines 152-158: the table when the queue is non-empty, st.info otherwise
Render(queue) ==
    IF queue # <<>> THEN SortedTables(queue, DOMAIN queue) ELSE {<<>>}

\* faulty variant: the session's list itself is sorted and shown
DisplayInPlace(queue) == {<<t, t>> : t \in Render(queue)}

\* lines 151-158 as <<table shown, task_queue afterwards>>: the DataFrame is
\* built from a copy of the list and sort_values returns a new frame
Display(queue) == {<<t, queue>> : t \in Render(queue)}

----------------------------------------------------------------------------
(* History bookkeeping *)

\* the bag of the elements of a sequence
RECURSIVE BagOfSeq(_)
BagOfSeq(s) ==
    IF s = <<>> THEN EmptyBag ELSE BagOfSeq(Tail(s)) (+) SetToBag({Head(s)})

\* s without its first occurrence of t
RECURSIVE RemoveFirst(_, _)
RemoveFirst(s, t) ==
    IF s = <<>> THEN <<>>
    ELSE IF Head(s) = t THEN Tail(s)
    ELSE <<Head(s)>> \o RemoveFirst(Tail(s), t)

\* some task of t's priority other than t arrived before every copy of t
ArrivedAfterPeer(arr, t) ==
    \E i \in DOMAIN arr :
        /\ arr[i][1] = t[1]
        /\ arr[i] # t
        /\ \A j \in DOMAIN arr : arr[j] = t => i < j

----------------------------------------------------------------------------
(* The session *)

\* lines 58-67: the three seed tasks, heapified
SeedTasks ==
    << <<3, "Send follow-up email (Low Priority)">>,
       <<1, "Fix critical server bug (Urgent)">>,
       <<2, "Review PRs (Medium Priority)">> >>

Init ==
    /\ \E shown \in Display(heapify(SeedTasks)) :
           /\ df = shown[1]
           /\ task_queue = shown[2]
    /\ outcome = <<"none", NoTask>>
    /\ nIns = Len(SeedTasks)
    /\ nPop = 0
    /\ ledger = BagOfSeq(SeedTasks)
    /\ popRun = <<>>
    /\ arrival = SeedTasks
    /\ overtook = FALSE

\* faulty variant: the success message is shown but the task is never pushed
AddTaskNoPush(new_priority, new_task) ==
    /\ new_task # ""
    /\ nIns < MaxInserts
    /\ \E shown \in Display(task_queue) :
           /\ df' = shown[1]
           /\ task_queue' = shown[2]
    /\ outcome' = <<"added", <<new_priority, new_task>>>>
    /\ nIns' = nIns + 1
    /\ ledger' = ledger (+) SetToBag({<<new_priority, new_task>>})
    /\ popRun' = <<>>
    /\ arrival' = Append(arrival, <<new_priority, new_task>>)
    /\ overtook' = FALSE
    /\ UNCHANGED nPop

\* lines 126-130 and 151-158: "Add Task to Queue" with a description typed
AddTask(new_priority, new_task) ==
    /\ new_task # ""
    /\ nIns < MaxInserts
    /\ \E shown \in Display(heappush(task_queue, <<new_priority, new_task>>)) :
           /\ df' = shown[1]
           /\ task_queue' = shown[2]
    /\ outcome' = <<"added", <<new_priority, new_task>>>>
    /\ nIns' = nIns + 1
    /\ ledger' = ledger (+) SetToBag({<<new_priority, new_task>>})
    /\ popRun' = <<>>
    /\ arrival' = Append(arrival, <<new_priority, new_task>>)
    /\ overtook' = FALSE
    /\ UNCHANGED nPop

\* lines 126-127, 131-132 and 151-158: "Add Task to Queue" with an empty box
RejectAdd(new_task) ==
    /\ new_task = ""
    /\ \E shown \in Display(task_queue) :
           /\ df' = shown[1]
           /\ task_queue' = shown[2]
    /\ outcome' = <<"rejected", NoTask>>
    /\ overtook' = FALSE
    /\ UNCHANGED <<nIns, nPop, ledger, popRun, arrival>>

\* lines 140-144, 148 and 151-158: "Process Most Urgent Task", queue non-empty
ProcessNext ==
    /\ task_queue # <<>>
    /\ LET popped == heappop(task_queue)
           processed_task == popped[1]
       IN  /\ \E shown \in Display(popped[2]) :
                  /\ df' = shown[1]
                  /\ task_queue' = shown[2]
           /\ outcome' = <<"processed", processed_task>>
           /\ ledger' = ledger (-) SetToBag({processed_task})
           /\ popRun' = Append(popRun, processed_task)
           /\ overtook' = ArrivedAfterPeer(arrival, processed_task)
           /\ arrival' = RemoveFirst(arrival, processed_task)
    /\ nPop' = nPop + 1
    /\ UNCHANGED nIns

\* faulty variant: heappop is called on the empty list as well: IndexError
ProcessEmptyUnguarded ==
    /\ task_queue = <<>>
    /\ df' = <<>>
    /\ outcome' = <<"IndexError", NoTask>>
    /\ overtook' = FALSE
    /\ UNCHANGED <<task_queue, nIns, nPop, ledger, popRun, arrival>>

\* lines 140-141, 145-146, 148 and 151-158: the same button on an empty queue
ProcessEmpty ==
    /\ task_queue = <<>>
    /\ \E shown \in Display(task_queue) :
           /\ df' = shown[1]
           /\ task_queue' = shown[2]
    /\ outcome' = <<"empty", NoTask>>
    /\ overtook' = FALSE
    /\ UNCHANGED <<nIns, nPop, ledger, popRun, arrival>>

\* lines 151-158: the script runs again with no button pressed and only
\* draws the table
Rerun ==
    /\ \E shown \in Display(task_queue) :
           /\ df' = shown[1]
           /\ task_queue' = shown[2]
    /\ outcome' = <<"none", NoTask>>
    /\ overtook' = FALSE
    /\ UNCHANGED <<nIns, nPop, ledger, popRun, arrival>>

Next ==
    \/ \E p \in Priorities, d \in TypedDescriptions : AddTask(p, d)
    \/ \E d \in TypedDescriptions : RejectAdd(d)
    \/ ProcessNext
    \/ ProcessEmpty
    \/ Rerun

Spec == Init /\ [][Next]_vars

----------------------------------------------------------------------------
(* Properties *)

\* the priority of the parent of list position i (i >= 1) of a heap array
ParentPriority(queue, i) == queue[((i - 1) \div 2) + 1][1]

\* rows in ascending order of priority
AscendingPriority(rows) ==
    \A i, j \in DOMAIN rows : i < j => rows[i][1] <= rows[j][1]

\* a step of "Add Task to Queue" that queued a task / of heappop
Inserted == nIns' = nIns + 1
Extracted == nPop' = nPop + 1

\* a is before or equal to b in the order (priority, then description by
\* code points)
PriorityThenDescription(a, b) ==
    \/ a[1] < b[1]
    \/ a[1] = b[1] /\ (a[2] = b[2] \/ StrLess(a[2], b[2]))

\* C1: heap invariant. In every state reached from the seeded queue by adds
\* and processings, every non-root position i of the array holds a priority
\* no smaller than the one at its parent position (i - 1) div 2.
C1_HeapInvariant ==
    \A i \in 1..(Len(task_queue) - 1) :
        ParentPriority(task_queue, i) <= task_queue[i + 1][1]

\* C1 witness: a four-element heap built by two adds and a processing, with a
\* grandchild level and a child strictly above its parent's priority.
C1_Witness ==
    /\ Len(task_queue) = 4
    /\ nIns = 5
    /\ nPop = 1
    /\ ParentPriority(task_queue, 3) < task_queue[4][1]
    /\ task_queue[2][1] > task_queue[3][1]

\* C2: order law. Every processing returns a task whose priority is the
\* minimum over the tasks queued just before it, and the tasks returned by
\* consecutive processings with no add in between come in non-decreasing
\* priority.
C2_OrderLaw ==
    [][Extracted =>
          /\ \A i \in DOMAIN task_queue : outcome'[2][1] <= task_queue[i][1]
          /\ AscendingPriority(popRun')]_vars

\* C2 witness: a five-task queue processed until empty with no add in
\* between, the priorities returned not all equal.
C2_Witness ==
    /\ task_queue = <<>>
    /\ Len(popRun) = 5
    /\ popRun[1][1] < popRun[3][1]
    /\ popRun[3][1] < popRun[5][1]

\* C3: empty queue. "Process Most Urgent Task" on an empty queue reports the
\* empty queue instead of a task and leaves the queue empty, and an add that
\* follows queues its task as on any queue.
C3_EmptyQueue ==
    [][/\ (task_queue = <<>> /\ (ProcessNext \/ ProcessEmpty))
            => /\ outcome' = <<"empty", NoTask>>
               /\ task_queue' = <<>>
               /\ nPop' = nPop
       /\ (outcome[1] = "empty" /\ Inserted)
            => /\ outcome'[1] = "added"
               /\ task_queue' = <<outcome'[2]>>]_vars

\* C3 witness: the button was pressed on a queue emptied by processing all
\* the tasks, with adds still possible.
C3_Witness ==
    /\ outcome = <<"empty", NoTask>>
    /\ task_queue = <<>>
    /\ nPop = nIns
    /\ nIns < MaxInserts

\* C4: size accounting. After N tasks put in (seed tasks included) and M
\* taken out, in any interleaving, M <= N and the queue holds N - M tasks.
C4_SizeAccounting ==
    /\ nPop <= nIns
    /\ Len(task_queue) = nIns - nPop

\* C4 witness: adds and processings interleaved, 5 in and 2 out.
C4_Witness ==
    /\ nIns = 5
    /\ nPop = 2
    /\ Len(task_queue) = 3
    /\ outcome[1] = "added"

\* C5: the table. The table drawn is always a permutation of exactly the
\* queued tasks in ascending priority, and drawing it leaves the queue's
\* array as the handler before it left it, element by element: as heappush
\* or heappop returned it, and as it was when no task was added or processed.
C5_SnapshotOrdered ==
    [][/\ BagOfSeq(df) = BagOfSeq(task_queue) /\ AscendingPriority(df)
       /\ BagOfSeq(df') = BagOfSeq(task_queue') /\ AscendingPriority(df')
       /\ Inserted => task_queue' = heappush(task_queue, outcome'[2])
       /\ Extracted => task_queue' = heappop(task_queue)[2]
       /\ ~(Inserted \/ Extracted) => task_queue' = task_queue]_vars

\* C5 witness: a table of four rows, two of them of one priority, drawn from
\* a heap array that is laid out differently.
C5_Witness ==
    /\ Len(df) = 4
    /\ df # task_queue
    /\ \E i \in 1..3 : df[i][1] = df[i + 1][1]
    /\ outcome[1] = "none"

\* C7: unique minimum at the root. Whenever one task has a priority strictly
\* below all the others, that task is at the root; the seed's root is the
\* priority 1 seed task, after one processing it is the priority 2 seed task,
\* and after then adding (1, "D") it is (1, "D").
C7_UniqueMinimumAtRoot ==
    /\ \A i \in DOMAIN task_queue :
          (\A j \in DOMAIN task_queue \ {i} :
               task_queue[i][1] < task_queue[j][1])
             => task_queue[1] = task_queue[i]
    /\ (nIns = 3 /\ nPop = 0)
          => task_queue[1] = <<1, "Fix critical server bug (Urgent)">>
    /\ (nIns = 3 /\ nPop = 1)
          => /\ task_queue[1] = <<2, "Review PRs (Medium Priority)">>
             /\ popRun = << <<1, "Fix critical server bug (Urgent)">> >>
    /\ (nIns = 4 /\ nPop = 1 /\ outcome = <<"added", <<1, "D">>>>)
          => task_queue[1] = <<1, "D">>

\* C7 witness: the seed, one processing, then the add of (1, "D"), which now
\* sits at the root as the only task of priority 1.
C7_Witness ==
    /\ nIns = 4
    /\ nPop = 1
    /\ outcome = <<"added", <<1, "D">>>>
    /\ task_queue[1] = <<1, "D">>
    /\ \A j \in 2..Len(task_queue) : task_queue[j][1] > 1

\* C8 as claimed: the heap compares tasks on priority alone, so a task just
\* added never takes the place of a root whose priority is no larger.
C8_PriorityAloneCompared ==
    [][(Inserted /\ task_queue # <<>> /\ task_queue[1][1] <= outcome'[2][1])
          => task_queue'[1] = task_queue[1]]_vars

\* C8 amended: the heap compares the (priority, description) tuples, so every
\* processing returns the task that is first by priority and, among the tasks
\* of that priority, first by description in code point order; consecutive
\* processings return equal priorities in ascending description order.
C8_TieBreakByDescription ==
    [][Extracted =>
          /\ \A i \in DOMAIN task_queue :
                PriorityThenDescription(outcome'[2], task_queue[i])
          /\ \A i, j \in DOMAIN popRun' :
                i < j => PriorityThenDescription(popRun'[i], popRun'[j])]_vars

\* C8 witness: a processing returned a task while a task of the same priority
\* and another description that arrived earlier stays queued (not FIFO).
C8_Witness ==
    /\ overtook
    /\ outcome[1] = "processed"
    /\ \E i \in DOMAIN task_queue :
          /\ task_queue[i][1] = outcome[2][1]
          /\ StrLess(outcome[2][2], task_queue[i][2])

\* C9: Empty / NonEmpty. The queue becomes empty only by a processing that
\* takes its last task and non-empty only by an add; every add leaves it
\* non-empty; a step that neither adds nor processes a task keeps it empty
\* or non-empty as it was; and an add is possible in every state (below the
\* model's bound on adds).
C9_EmptyNonEmpty ==
    /\ [][/\ (task_queue # <<>> /\ task_queue' = <<>>)
                => (Extracted /\ Len(task_queue) = 1)
          /\ (task_queue = <<>> /\ task_queue' # <<>>) => Inserted
          /\ Inserted => task_queue' # <<>>
          /\ ~(Inserted \/ Extracted)
                => ((task_queue' = <<>>) <=> (task_queue = <<>>))]_vars
    /\ [](nIns < MaxInserts
            => ENABLED (\E p \in Priorities, d \in TypedDescriptions :
                            AddTask(p, d)))

\* C9 witness: an add on the empty queue made it non-empty again.
C9_Witness ==
    /\ outcome[1] = "added"
    /\ task_queue = <<outcome[2]>>
    /\ nPop = 3
    /\ nIns = 4

\* C10: task conservation. As a bag of (priority, description) pairs the
\* queue is the seed tasks plus the tasks added minus the tasks returned by
\* processings, each with its number of copies.
C10_TaskConservation ==
    /\ BagOfSeq(task_queue) = ledger
    /\ BagCardinality(ledger) = nIns - nPop

\* C10 witness: two copies of one task queued, after adds and a processing
\* that moved elements of the array.
C10_Witness ==
    /\ nIns = 5
    /\ nPop = 1
    /\ \E i, j \in DOMAIN task_queue : i < j /\ task_queue[i] = task_queue[j]
    /\ task_queue # arrival

====
